---- MODULE Spec2Model ----
(***************************************************************************)
(* A model of xControl: the process-wide registry of automation handles    *)
(* (XControl.config / XControl.get_instance), the polling primitives       *)
(* wait_for / wait_to_be_set, and the template locator with the two image  *)
(* waits of Screen that are layered on the primitives.                     *)
(*                                                                         *)
(* Time is counted in ticks of 0.1 s (the default polling interval).       *)
(***************************************************************************)
EXTENDS Integers, FiniteSets, Sequences, TLC

(***************************************************************************)
(* Bounds of the model.                                                    *)
(***************************************************************************)
\* Largest width / height passed to get_instance; 0 stands for every value
\* the Display constructor rejects (None, a non-int, a non-positive int).
MaxDim == 2

\* Latest clock reading at which a call may begin and at which a primitive may
\* read its start time.
MaxStart == 1

\* Largest timeout and interval passed to the polling primitives directly.
MaxTimeout == 2
MaxInterval == 2

\* With interval 0 and a clock that stands still the loop spins: the largest
\* number of evaluations followed in such a call.
MaxSpin == 3

\* How far the clock runs past the latest moment a poll loop can need.
MaxLate == 1

\* interval=0.1 of wait_for and wait_to_be_set: one tick.
DefaultInterval == 1

\* The timeout Screen passes to the primitives for both image waits: 1 second.
LocateTimeout == 10

\* Display identifiers that pass Display.__init__ (strings starting with ":"),
\* one string that does not, and the sentinel for displayId=None.
ColonIds == {":1", ":2"}
BadIds == {"1"}
None == "None"
IdArgs == ColonIds \cup BadIds \cup {None}
Dims == 0..MaxDim

VARIABLES
    instances,      \* XControl.__instances: displayId -> handle
    uniqueDisplay,  \* XControl.uniqueDisplay
    serials,        \* number of XControl objects constructed so far
    firstHandle,    \* history: displayId -> the handle its first creation made
    call,           \* the last class-method call: arguments, outcome, result
    now,            \* time.time(), in ticks
    poll,           \* the running polling primitive: its locals and its history
    img,            \* the Screen image wait that called it: arguments, counters
    mouse,          \* the running Screen.mouse_move / mouse_drag and its history
    run,            \* the running Display.run_command: process, pipes, result
    ocr             \* the running OCR.extract_text: image, spec, steps, result

regVars == <<instances, uniqueDisplay, serials, firstHandle, call>>

pollVars == <<now, poll, img>>

restVars == <<mouse, run, ocr>>

vars == <<instances, uniqueDisplay, serials, firstHandle, call, now, poll, img,
          mouse, run, ocr>>

\* An XControl object: its identity and what Display.__init__ stored.
Handle(n, id, w, h) == [serial |-> n, displayId |-> id, width |-> w, height |-> h]
NoHandle == Handle(0, None, 0, 0)

EmptyRegistry == [d \in {} |-> NoHandle]

Size(inst) == Cardinality(DOMAIN inst)

\* list(cls.__instances.values())[0] when the registry holds one handle
FirstValue(inst) == inst[CHOOSE d \in DOMAIN inst : TRUE]

Put(f, d, v) == [x \in (DOMAIN f) \cup {d} |-> IF x = d THEN v ELSE f[x]]

\* The assertions of Display.__init__ on the constructor's arguments.
DisplayArgsOk(id, w, h) == id \in ColonIds /\ w > 0 /\ h > 0

\* config without its assertion (a variant the invariant must exclude).
ConfigAllowedUnchecked(u, inst) == TRUE

\* config: the assertion guarding the switch to unique-display mode.
ConfigAllowed(u, inst) == u => Size(inst) <= 1

\* The same assertion without the test of the mode (a variant).
NoIdAllowedAnyMode(unique, inst) == Size(inst) = 1

\* get_instance(None): the assertion of the branch without an identifier.
NoIdAllowed(unique, inst) == unique /\ Size(inst) = 1

\* A get_instance that never looks the identifier up (a variant).
NeedsCreateAlways(inst, id) == TRUE

\* get_instance(id): whether the identifier has no handle yet.
NeedsCreate(inst, id) == id \notin DOMAIN inst

\* get_instance(id): the assertion guarding the creation of a handle.
CreateAllowed(unique, inst) == Size(inst) = 0 \/ ~unique

Called(op, id, w, h, outcome, ret) ==
    [op |-> op, id |-> id, width |-> w, height |-> h, outcome |-> outcome, ret |-> ret]

\* XControl.config(uniqueDisplay); isBool is isinstance(uniqueDisplay, bool).
Config(isBool, u) ==
    /\ IF isBool /\ ConfigAllowed(u, instances)
       THEN /\ uniqueDisplay' = u
            /\ call' = Called("config", None, 0, 0, "ok", NoHandle)
       ELSE /\ uniqueDisplay' = uniqueDisplay
            /\ call' = Called("config", None, 0, 0, "AssertionError", NoHandle)
    /\ UNCHANGED <<instances, serials, firstHandle>>

\* XControl.get_instance(displayId, width, height)
GetInstance(id, w, h) ==
    IF id = None
    THEN /\ IF NoIdAllowed(uniqueDisplay, instances)
            THEN call' = Called("get_instance", id, w, h, "ok", FirstValue(instances))
            ELSE call' = Called("get_instance", id, w, h, "AssertionError", NoHandle)
         /\ UNCHANGED <<instances, uniqueDisplay, serials, firstHandle>>
    ELSE IF NeedsCreate(instances, id)
    THEN IF CreateAllowed(uniqueDisplay, instances) /\ DisplayArgsOk(id, w, h)
         THEN LET new == Handle(serials + 1, id, w, h) IN
              /\ instances' = Put(instances, id, new)
              /\ serials' = serials + 1
              /\ firstHandle' = IF id \in DOMAIN firstHandle
                                THEN firstHandle ELSE Put(firstHandle, id, new)
              /\ call' = Called("get_instance", id, w, h, "ok", new)
              /\ UNCHANGED uniqueDisplay
         ELSE /\ call' = Called("get_instance", id, w, h, "AssertionError", NoHandle)
              /\ UNCHANGED <<instances, uniqueDisplay, serials, firstHandle>>
    ELSE /\ call' = Called("get_instance", id, w, h, "ok", instances[id])
         /\ UNCHANGED <<instances, uniqueDisplay, serials, firstHandle>>

(***************************************************************************)
(* The polling primitives (utils.py) and the image waits of Screen.        *)
(***************************************************************************)
Timeouts == 0..MaxTimeout
Intervals == 0..MaxInterval

\* What a condition passed to wait_for may be: its value at each evaluation.
Predicates == {"always_true", "always_false", "arbitrary"}
\* What a producer passed to wait_to_be_set may be.
Producers == {"always_absent", "arbitrary"}
\* The non-absent values a producer yields; "False" is falsy but not None.
Values == {"a", "b", "False"}

\* The values one evaluation of the condition may return.
Yields(prim, cond) ==
    IF prim = "wait_for"
    THEN CASE cond = "always_true" -> {"True"}
           [] cond = "always_false" -> {"False"}
           [] OTHER -> {"True", "False"}
    ELSE CASE cond = "always_absent" -> {None}
           [] OTHER -> {None} \cup Values

\* Python truthiness of the values of the model.
Truthy(v) == v \notin {None, "False"}

\* Both loops written as `while not ...` (a variant: wait_to_be_set would
\* then poll on after a falsy value).
ContinuesWhileFalsy(prim, v) == ~Truthy(v)

\* wait_for: `while not condition()`; wait_to_be_set: `while result is None`.
Continues(prim, v) == IF prim = "wait_for" THEN ~Truthy(v) ELSE v = None

\* The timeout check with >= and with < for > (variants).
TimedOutInclusive(t, start, timeout) == t - start >= timeout

TimedOutReversed(t, start, timeout) == t - start < timeout

\* `if time.time() - start > timeout`
TimedOut(t, start, timeout) == t - start > timeout

\* What the primitive returns when its loop ends without a timeout.
Returned(prim, v) == IF prim = "wait_for" THEN "True" ELSE v

\* What the primitive returns when the timeout check fires.
GaveUp(prim, v) == IF prim = "wait_for" THEN "False" ELSE v

\* The locals of a primitive at its first statement, with an empty history.
Frame(prim, cond, timeout, interval, t) ==
    [prim |-> prim, cond |-> cond, timeout |-> timeout, interval |-> interval,
     pc |-> "eval",
     started |-> (prim = "wait_for"),    \* wait_for reads start before the loop
     start |-> IF prim = "wait_for" THEN t ELSE 0,
     wakeAt |-> 0, result |-> None, ret |-> None, outcome |-> "running",
     evals |-> 0, sleeps |-> 0,
     \* history
     firstEvalAt |-> t,         \* when the first evaluation began
     evalsAtStart |-> 0,        \* evaluations made when start was read
     gaveUpAt |-> 0,            \* the clock reading of the check that timed out
     evalsAtGiveUp |-> 0,       \* evaluations made when that check was made
     firstValue |-> None,       \* the first non-absent value yielded
     evalsAtValue |-> 0]        \* evaluations made when it was yielded

Idle == [Frame("none", "none", 0, 0, 0) EXCEPT !.pc = "idle", !.outcome = "none"]

\* The arguments of the Screen method that runs the primitive, and what the
\* locator did for it so far.
Direct ==
    [caller |-> "direct", imagePath |-> "none", frameOk |-> TRUE,
     confidence |-> [isFloat |-> TRUE, val |-> 0], timeout |-> 0,
     captures |-> 0, loads |-> 0]

\* imagePath: a readable image file, a path cv2.imread cannot read, a non-str.
ImagePaths == {"readable", "unreadable", "not_a_str"}
\* confidence, in tenths: -0.1, 0, 0.7 (the default), 1, 1.1; isFloat is
\* isinstance(confidence, float).
ConfidenceVals == {-1, 0, 7, 10, 11}
Confidences == [isFloat : BOOLEAN, val : ConfidenceVals]
\* timeout of the image waits, in ticks: 0.5 s, 1 s (the default), 1.2 s.
ImageTimeouts == {5, 10, 12}
\* max_val of cv2.minMaxLoc over TM_CCOEFF_NORMED, in tenths.
Scores == {-10, 0, 8, 10}

\* The assertions of __locate_on_screen without the range of confidence (a
\* variant).
LocateArgsOkNoRange(path, frameOk, confidence) ==
    /\ path # "not_a_str"
    /\ frameOk
    /\ confidence.isFloat

\* The assertions of __locate_on_screen.
LocateArgsOk(path, frameOk, confidence) ==
    /\ path # "not_a_str"
    /\ frameOk
    /\ confidence.isFloat /\ 0 <= confidence.val /\ confidence.val <= 10

\* A locator without the `template is None` check (a variant).
ReadableAlways(path) == TRUE

\* cv2.imread(imagePath) is not None
Readable(path) == path = "readable"

\* __locate_on_screen's result for a match score: a Point or None.
Locate(score, confidence) == IF score > confidence.val THEN "Point" ELSE None

\* The value of the lambda each Screen method polls.
Condition(caller, score, confidence) ==
    IF caller = "wait_for_image"
    THEN Locate(score, confidence)
    ELSE IF Locate(score, confidence) = None THEN "True" ELSE "False"

\* How the Screen method ends once its primitive returned ret.
Outcome(caller, ret) ==
    CASE caller = "wait_for_image" ->
             IF Truthy(ret) THEN "returned" ELSE "TimeoutError"
      [] caller = "wait_for_image_to_disappear" ->
             IF Truthy(ret) THEN "returned" ELSE "TimeoutError"
      [] OTHER -> "returned"

CanCall == poll.pc \in {"idle", "done"} /\ now <= MaxStart

\* Where the clock stops: at MaxStart while no primitive has read its start
\* time, and MaxLate ticks after the running loop must have timed out.
Horizon ==
    IF poll.pc \in {"idle", "done"} \/ ~poll.started
    THEN MaxStart
    ELSE MaxStart + poll.timeout + poll.interval + MaxLate

\* time.time() advances by one tick.
Tick ==
    /\ now < Horizon
    /\ now' = now + 1
    /\ UNCHANGED <<regVars, restVars, poll, img>>

\* wait_for(condition, timeout, interval): start = time.time(), loop entered.
WaitFor(cond, timeout, interval) ==
    /\ CanCall
    /\ poll' = Frame("wait_for", cond, timeout, interval, now)
    /\ img' = Direct
    /\ UNCHANGED <<regVars, restVars, now>>

\* wait_to_be_set(condition, timeout, interval): the first condition() begins.
WaitToBeSet(cond, timeout, interval) ==
    /\ CanCall
    /\ poll' = Frame("wait_to_be_set", cond, timeout, interval, now)
    /\ img' = Direct
    /\ UNCHANGED <<regVars, restVars, now>>

\* The frame after an evaluation of the condition returned v.
Evaluated(f, v) ==
    [f EXCEPT !.result = v,
              !.evals = @ + 1,
              !.firstValue = IF @ = None THEN v ELSE @,
              !.evalsAtValue = IF f.firstValue = None /\ v # None
                               THEN f.evals + 1 ELSE @,
              !.pc = IF f.started THEN "test" ELSE "start"]

\* condition() returns v (a condition that is not the locator).
Evaluate(v) ==
    /\ poll.pc = "eval"
    /\ img.caller = "direct"
    /\ v \in Yields(poll.prim, poll.cond)
    /\ poll' = Evaluated(poll, v)
    /\ UNCHANGED <<regVars, restVars, now, img>>

\* wait_to_be_set: start = time.time(), after the first evaluation.
StartClock ==
    /\ poll.pc = "start"
    /\ poll' = [poll EXCEPT !.started = TRUE, !.start = now,
                            !.evalsAtStart = poll.evals, !.pc = "test"]
    /\ UNCHANGED <<regVars, restVars, now, img>>

\* The while condition: the loop body runs, or the primitive returns.
LoopTest ==
    /\ poll.pc = "test"
    /\ IF Continues(poll.prim, poll.result)
       THEN poll' = [poll EXCEPT !.pc = "check"]
       ELSE LET r == Returned(poll.prim, poll.result) IN
            poll' = [poll EXCEPT !.pc = "done", !.ret = r,
                                 !.outcome = Outcome(img.caller, r)]
    /\ UNCHANGED <<regVars, restVars, now, img>>

\* The timeout check of the loop body: return / break, or time.sleep(interval).
TimeoutCheck ==
    /\ poll.pc = "check"
    /\ IF TimedOut(now, poll.start, poll.timeout)
       THEN LET r == GaveUp(poll.prim, poll.result) IN
            poll' = [poll EXCEPT !.pc = "done", !.ret = r,
                                 !.outcome = Outcome(img.caller, r),
                                 !.gaveUpAt = now, !.evalsAtGiveUp = poll.evals]
       ELSE poll' = [poll EXCEPT !.pc = "sleep", !.sleeps = @ + 1,
                                 !.wakeAt = now + poll.interval]
    /\ UNCHANGED <<regVars, restVars, now, img>>

\* time.sleep(interval) returns, no sooner than interval after it was called;
\* the next condition() begins.
Wake ==
    /\ poll.pc = "sleep"
    /\ now >= poll.wakeAt
    /\ poll.interval = 0 => poll.evals < MaxSpin
    /\ poll' = [poll EXCEPT !.pc = "eval"]
    /\ UNCHANGED <<regVars, restVars, now, img>>

ImageCall(caller, path, frameOk, confidence, timeout) ==
    [caller |-> caller, imagePath |-> path, frameOk |-> frameOk,
     confidence |-> confidence, timeout |-> timeout, captures |-> 0, loads |-> 0]

\* Screen.wait_for_image(imagePath, frame, confidence, timeout)
WaitForImage(path, frameOk, confidence, timeout) ==
    /\ CanCall
    /\ img' = ImageCall("wait_for_image", path, frameOk, confidence, timeout)
    /\ poll' = Frame("wait_to_be_set", "locate", LocateTimeout, DefaultInterval, now)
    /\ UNCHANGED <<regVars, restVars, now>>

\* Screen.wait_for_image_to_disappear(imagePath, frame, confidence, timeout)
WaitForImageToDisappear(path, frameOk, confidence, timeout) ==
    /\ CanCall
    /\ img' = ImageCall("wait_for_image_to_disappear", path, frameOk, confidence, timeout)
    /\ poll' = Frame("wait_for", "not_locate", LocateTimeout, DefaultInterval, now)
    /\ UNCHANGED <<regVars, restVars, now>>

\* __locate_on_screen: the three assertions on its arguments.
LocateAssert ==
    /\ poll.pc = "eval"
    /\ img.caller # "direct"
    /\ IF LocateArgsOk(img.imagePath, img.frameOk, img.confidence)
       THEN poll' = [poll EXCEPT !.pc = "capture"]
       ELSE poll' = [poll EXCEPT !.pc = "done", !.outcome = "AssertionError"]
    /\ UNCHANGED <<regVars, restVars, now, img>>

\* __locate_on_screen: screenshot = self.display.screenshot(frame)
LocateCapture ==
    /\ poll.pc = "capture"
    /\ img' = [img EXCEPT !.captures = @ + 1]
    /\ poll' = [poll EXCEPT !.pc = "load"]
    /\ UNCHANGED <<regVars, restVars, now>>

\* __locate_on_screen: template = cv2.imread(imagePath), then the None check.
LocateLoad ==
    /\ poll.pc = "load"
    /\ img' = [img EXCEPT !.loads = @ + 1]
    /\ IF Readable(img.imagePath)
       THEN poll' = [poll EXCEPT !.pc = "match"]
       ELSE poll' = [poll EXCEPT !.pc = "done", !.outcome = "FileNotFoundError"]
    /\ UNCHANGED <<regVars, restVars, now>>

\* __locate_on_screen: matchTemplate, minMaxLoc, the threshold; the lambda
\* returns to the primitive.
LocateMatch(score) ==
    /\ poll.pc = "match"
    /\ poll' = Evaluated(poll, Condition(img.caller, score, img.confidence))
    /\ UNCHANGED <<regVars, restVars, now, img>>

(***************************************************************************)
(* Screen.mouse_move and Screen.mouse_drag: xdotool commands, each         *)
(* confirmed by polling the pointer position with wait_for.                *)
(***************************************************************************)
\* The literal timeout of the three wait_for calls, in ticks (1 second).
MouseTimeout == 10

\* Positions of the pointer on the display.
Points == {"p1", "p2"}
\* What a caller may pass for a point, and for click of mouse_move.
PointArgs == Points \cup {"not_a_point"}
ClickArgs == {None, "LEFT", "not_a_click"}
\* What `xdotool getmouselocation` may print: the position, wherever the
\* pointer is by then, or nothing (run_command returned "").
Outputs == Points \cup {""}

\* The commands one method issued, in order, and what its polls saw.
Pointer(op, pc, phase, start, end, cmds, outcome) ==
    [op |-> op, pc |-> pc, phase |-> phase, start |-> start, end |-> end,
     cmds |-> cmds, outcome |-> outcome,
     observed |-> None,     \* the position the last poll returned
     sightings |-> {},      \* the phases in which a poll saw the phase's target
     named |-> None]        \* the point the TimeoutError message names

NoMouse == Pointer("none", "idle", "none", None, None, <<>>, "none")

\* The assertions of mouse_move.
MoveArgsOk(point, click) ==
    /\ point \in Points
    /\ click # None => click = "LEFT"

\* The assertion of mouse_drag.
DragArgsOk(start, end) == start \in Points /\ end \in Points

\* The command line of mouse_move, as the commands xdotool chains.
MoveCommand(click) ==
    IF click # None THEN <<"mousemove", "click">> ELSE <<"mousemove">>

\* A position check that any position satisfies (a variant).
ObservesAnything(pos, point) == TRUE

\* `self.get_mouse_position() == point`
Observes(pos, point) == pos = point

\* get_mouse_position can index the fields of the output.
Parses(out) == out # ""

\* A method that goes on whatever wait_for returned (a variant).
ArrivedAlways(ret) == TRUE

\* `if not wait_for(...): raise TimeoutError`
Arrived(ret) == ret = "True"

\* The point the running wait_for polls for.
Target(m) == IF m.phase = "start" THEN m.start ELSE m.end

\* The frame of wait_for(lambda: self.get_mouse_position() == point, 1).
MouseWait(t) == Frame("wait_for", "at_point", MouseTimeout, DefaultInterval, t)

MouseCanCall == CanCall /\ mouse.pc \in {"idle", "done"}

\* Screen.mouse_move(point, click): the assertions, activate_window, the move
\* command, and the call of wait_for.
MouseMove(point, click) ==
    /\ MouseCanCall
    /\ IF MoveArgsOk(point, click)
       THEN /\ mouse' = Pointer("mouse_move", "wait", "end", None, point,
                                <<"windowactivate">> \o MoveCommand(click),
                                "running")
            /\ poll' = MouseWait(now)
            /\ img' = [Direct EXCEPT !.caller = "mouse"]
       ELSE /\ mouse' = Pointer("mouse_move", "done", "end", None, point,
                                <<>>, "AssertionError")
            /\ poll' = Idle
            /\ img' = Direct
    /\ UNCHANGED <<regVars, now, run, ocr>>

\* Screen.mouse_drag(start, end, click): the assertion, activate_window, the
\* mousedown command, and the call of the first wait_for.
MouseDrag(start, end) ==
    /\ MouseCanCall
    /\ IF DragArgsOk(start, end)
       THEN /\ mouse' = Pointer("mouse_drag", "wait", "start", start, end,
                                <<"windowactivate", "mousedown">>, "running")
            /\ poll' = MouseWait(now)
            /\ img' = [Direct EXCEPT !.caller = "mouse"]
       ELSE /\ mouse' = Pointer("mouse_drag", "done", "start", start, end,
                                <<>>, "AssertionError")
            /\ poll' = Idle
            /\ img' = Direct
    /\ UNCHANGED <<regVars, now, run, ocr>>

\* One evaluation of the lambda: get_mouse_position() runs the query, parses
\* its output and compares the Point with the target; an output without the
\* fields raises IndexError out of wait_for and out of the method.
MousePoll(out) ==
    /\ poll.pc = "eval"
    /\ img.caller = "mouse"
    /\ mouse.pc = "wait"
    /\ IF Parses(out)
       THEN /\ poll' = Evaluated(poll, IF Observes(out, Target(mouse))
                                       THEN "True" ELSE "False")
            /\ mouse' = [mouse EXCEPT
                           !.observed = out,
                           !.sightings = IF out = Target(mouse)
                                         THEN @ \cup {mouse.phase} ELSE @]
       ELSE /\ poll' = [poll EXCEPT !.evals = @ + 1, !.pc = "done",
                                    !.outcome = "IndexError"]
            /\ mouse' = [mouse EXCEPT !.observed = out, !.pc = "done",
                                      !.outcome = "IndexError"]
    /\ UNCHANGED <<regVars, now, img, run, ocr>>

\* wait_for returned a value the method takes for failure: TimeoutError with
\* the polled point in its message.
MouseTimedOut ==
    /\ mouse.pc = "wait"
    /\ poll.pc = "done"
    /\ ~Arrived(poll.ret)
    /\ mouse' = [mouse EXCEPT !.pc = "done", !.outcome = "TimeoutError",
                              !.named = Target(mouse)]
    /\ UNCHANGED <<regVars, pollVars, run, ocr>>

\* mouse_drag after its first wait_for: activate_window, the mouseup command,
\* and the call of the second wait_for.
DragRelease ==
    /\ mouse.pc = "wait"
    /\ poll.pc = "done"
    /\ mouse.op = "mouse_drag" /\ mouse.phase = "start"
    /\ Arrived(poll.ret)
    /\ mouse' = [mouse EXCEPT !.phase = "end",
                              !.cmds = @ \o <<"windowactivate", "mouseup">>]
    /\ poll' = MouseWait(now)
    /\ UNCHANGED <<regVars, now, img, run, ocr>>

\* The last wait_for of the method succeeded: the method returns None.
MouseReturn ==
    /\ mouse.pc = "wait"
    /\ poll.pc = "done"
    /\ mouse.phase = "end"
    /\ Arrived(poll.ret)
    /\ mouse' = [mouse EXCEPT !.pc = "done", !.outcome = "returned"]
    /\ UNCHANGED <<regVars, pollVars, run, ocr>>

(***************************************************************************)
(* Display.run_command: the process, its two pipes, the return value.      *)
(***************************************************************************)
\* Return codes of the external command.
ReturnCodes == {0, 1, 2}
\* What the command wrote to a stream: nothing, text, bytes that are not UTF-8.
Contents == {"", "text", "bytes"}

\* The locals of run_command; wroteOut and wroteErr keep what the command
\* wrote, stdout and stderr are what is left to read in the pipes.
Process(waitFor, inTime, rc, out, err) ==
    [pc |-> "popen", waitFor |-> waitFor, inTime |-> inTime, rc |-> rc,
     wroteOut |-> out, wroteErr |-> err, stdout |-> out, stderr |-> err,
     err |-> None, logged |-> None, ret |-> None, outcome |-> "running"]

NoRun == [Process(FALSE, TRUE, 0, "", "") EXCEPT !.pc = "idle", !.outcome = "none"]

\* A pipe that read() leaves as it was (a variant).
DrainedNot(content) == content

\* What is left in a pipe once read() returned its content.
Drained(content) == ""

\* bytes.decode("utf-8") succeeds.
Decodes(content) == content # "bytes"

\* `if rc != 0`
Failed(rc) == rc # 0

\* The function returned value v.
RunReturned(p, v) == [p EXCEPT !.pc = "done", !.ret = v, !.outcome = "returned"]

\* An exception left the function.
RunRaised(p, e) == [p EXCEPT !.pc = "done", !.outcome = e]

\* run_command(cmd, waitFor): Popen starts the command; it exits with rc
\* within the 5 seconds of proc.wait or not, having written out and err.
RunCommand(waitFor, inTime, rc, out, err) ==
    /\ run.pc \in {"idle", "done"}
    /\ run' = Process(waitFor, inTime, rc, out, err)
    /\ UNCHANGED <<regVars, pollVars, mouse, ocr>>

\* `if waitFor:` and proc.wait(timeout=5) in its try / except.
RunWait ==
    /\ run.pc = "popen"
    /\ run' = IF ~run.waitFor \/ ~run.inTime
              THEN RunReturned(run, "")
              ELSE [run EXCEPT !.pc = IF Failed(run.rc) THEN "stderr" ELSE "return"]
    /\ UNCHANGED <<regVars, pollVars, mouse, ocr>>

\* err = proc.stderr.read().decode("utf-8") and `if len(err) == 0`
RunReadStderr ==
    /\ run.pc = "stderr"
    /\ run' = IF Decodes(run.stderr)
              THEN [run EXCEPT !.err = run.stderr,
                               !.stderr = Drained(run.stderr),
                               !.pc = IF run.stderr = "" THEN "stdout" ELSE "log"]
              ELSE RunRaised([run EXCEPT !.stderr = Drained(run.stderr)],
                             "UnicodeDecodeError")
    /\ UNCHANGED <<regVars, pollVars, mouse, ocr>>

\* err = proc.stdout.read().decode("utf-8"), when stderr was empty.
RunReadStdout ==
    /\ run.pc = "stdout"
    /\ run' = IF Decodes(run.stdout)
              THEN [run EXCEPT !.err = run.stdout,
                               !.stdout = Drained(run.stdout),
                               !.pc = "log"]
              ELSE RunRaised([run EXCEPT !.stdout = Drained(run.stdout)],
                             "UnicodeDecodeError")
    /\ UNCHANGED <<regVars, pollVars, mouse, ocr>>

\* log.debug(f"{cmd} exited with {rc}, err: {err}")
RunLog ==
    /\ run.pc = "log"
    /\ run' = [run EXCEPT !.logged = run.err, !.pc = "return"]
    /\ UNCHANGED <<regVars, pollVars, mouse, ocr>>

\* return proc.stdout.read().decode("utf-8")
RunReturn ==
    /\ run.pc = "return"
    /\ run' = IF Decodes(run.stdout)
              THEN RunReturned([run EXCEPT !.stdout = Drained(run.stdout)],
                               run.stdout)
              ELSE RunRaised([run EXCEPT !.stdout = Drained(run.stdout)],
                             "UnicodeDecodeError")
    /\ UNCHANGED <<regVars, pollVars, mouse, ocr>>

(***************************************************************************)
(* OCR.extract_text and its binarization step, __convert_to_bw.            *)
(***************************************************************************)
\* Pixels of an image of the model (one row).
NumPixels == 2

\* B, G, R values of a pixel.
Colours ==
    {<<0, 0, 0>>, <<255, 255, 255>>, <<0, 0, 255>>, <<100, 100, 100>>,
     <<0, 100, 255>>}
\* spec.lowerBound and spec.upperBound.
ColourBounds == {<<0, 0, 0>>, <<0, 0, 100>>, <<100, 100, 100>>, <<255, 255, 255>>}

\* img.shape: H x W arrays and H x W x C arrays of 1 to 4 channels.
Shapes == {<<1, NumPixels>>} \cup {<<1, NumPixels, c>> : c \in 1..4}
\* The 3-channel images, as the pixels of their row.
BgrImages == [1..NumPixels -> Colours]

\* img.ndim and the number of channels of an array of shape sh.
Ndim(sh) == Len(sh)
Channels(sh) == IF Len(sh) = 3 THEN sh[3] ELSE 1

\* `assert img.ndim == 3, "Image must be BGR"`
ImageOk(sh) == Ndim(sh) = 3

\* cv2.inRange for one pixel: 255 if every channel lies within its bounds.
InRange(px, lower, upper) ==
    IF \A c \in 1..3 : lower[c] <= px[c] /\ px[c] <= upper[c] THEN 255 ELSE 0

\* The mask without the comparison with 0 (a variant).
BgMaskOfRange(px, lower, upper) == InRange(px, lower, upper) # 0

\* bgMask = cv2.inRange(img, lowerColor, upperColor) == 0
BgMask(px, lower, upper) == InRange(px, lower, upper) = 0

\* cv2.cvtColor(img, cv2.COLOR_BGR2GRAY) for one pixel, in 14-bit fixed point.
Gray(px) == (1868 * px[1] + 9617 * px[2] + 4899 * px[3] + 8192) \div 16384

\* img[bgMask] = 255, then img[~bgMask] = 0, for one pixel.
Binarized(px, lower, upper) ==
    LET masked == IF BgMask(px, lower, upper) THEN 255 ELSE Gray(px)
    IN  IF ~BgMask(px, lower, upper) THEN 0 ELSE masked

\* __convert_to_bw(img, spec) for a 3-channel image.
ConvertToBw(pixels, lower, upper) ==
    [i \in DOMAIN pixels |-> Binarized(pixels[i], lower, upper)]

\* The arguments of extract_text and how far it got.
Extraction(shape, pixels, lower, upper, custom, typesOk) ==
    [pc |-> "assert", shape |-> shape, pixels |-> pixels,
     lower |-> lower, upper |-> upper,
     custom |-> custom,         \* a prepare_image function was supplied
     typesOk |-> typesOk,       \* the isinstance / callable tests hold
     steps |-> <<>>,            \* the pipeline steps and OCR calls begun
     bw |-> <<>>,               \* what __convert_to_bw returned
     outcome |-> "running"]

NoOcr ==
    [Extraction(<<1, NumPixels, 3>>, <<>>, <<0, 0, 0>>, <<0, 0, 0>>, FALSE, TRUE)
        EXCEPT !.pc = "idle", !.outcome = "none"]

\* One step of the pipeline begins.
Stepped(o, step) == [o EXCEPT !.steps = Append(@, step)]

\* extract_text(img, spec, preview, prepare_image) is called.
ExtractText(shape, pixels, lower, upper, custom, typesOk) ==
    /\ ocr.pc = "idle"
    /\ pixels \in IF Channels(shape) = 3 /\ Len(shape) = 3 THEN BgrImages ELSE {<<>>}
    /\ ocr' = Extraction(shape, pixels, lower, upper, custom, typesOk)
    /\ UNCHANGED <<regVars, pollVars, mouse, run>>

\* The two assert statements, then `if prepare_image:`.
ExtractAssert ==
    /\ ocr.pc = "assert"
    /\ ocr' = IF ocr.typesOk /\ ImageOk(ocr.shape)
              THEN [ocr EXCEPT !.pc = IF ocr.custom THEN "prepare" ELSE "convert"]
              ELSE [ocr EXCEPT !.pc = "done", !.outcome = "AssertionError"]
    /\ UNCHANGED <<regVars, pollVars, mouse, run>>

\* img = prepare_image(img)
ExtractPrepare ==
    /\ ocr.pc = "prepare"
    /\ ocr' = [Stepped(ocr, "prepare_image") EXCEPT !.pc = "recognize"]
    /\ UNCHANGED <<regVars, pollVars, mouse, run>>

\* img = self.__convert_to_bw(img, spec); its assertions hold here, and
\* cv2.inRange takes three-element bounds for three-channel images only.
ExtractConvert ==
    /\ ocr.pc = "convert"
    /\ ocr' = IF Channels(ocr.shape) = 3
              THEN [Stepped(ocr, "convert_to_bw") EXCEPT
                      !.bw = ConvertToBw(ocr.pixels, ocr.lower, ocr.upper),
                      !.pc = "improve"]
              ELSE [Stepped(ocr, "convert_to_bw") EXCEPT
                      !.pc = "done", !.outcome = "cv2.error"]
    /\ UNCHANGED <<regVars, pollVars, mouse, run>>

\* img = self.__improve_resolution(img)
ExtractImprove ==
    /\ ocr.pc = "improve"
    /\ ocr' = [Stepped(ocr, "improve_resolution") EXCEPT !.pc = "enhance"]
    /\ UNCHANGED <<regVars, pollVars, mouse, run>>

\* img = self.__enhance(img)
ExtractEnhance ==
    /\ ocr.pc = "enhance"
    /\ ocr' = [Stepped(ocr, "enhance") EXCEPT !.pc = "recognize"]
    /\ UNCHANGED <<regVars, pollVars, mouse, run>>

\* pytesseract.image_to_string(img, ...), __format, return txt.
ExtractRecognize ==
    /\ ocr.pc = "recognize"
    /\ ocr' = [Stepped(ocr, "image_to_string") EXCEPT
                 !.pc = "done", !.outcome = "returned"]
    /\ UNCHANGED <<regVars, pollVars, mouse, run>>

\* extract_text is left, by return or by the exception: its frame is gone.
ExtractLeave ==
    /\ ocr.pc = "done"
    /\ ocr' = NoOcr
    /\ UNCHANGED <<regVars, pollVars, mouse, run>>

RestInit ==
    /\ mouse = NoMouse
    /\ run = NoRun
    /\ ocr = NoOcr

PollInit ==
    /\ now = 0
    /\ poll = Idle
    /\ img = Direct

RegInit ==
    /\ instances = EmptyRegistry
    /\ uniqueDisplay = FALSE
    /\ serials = 0
    /\ firstHandle = EmptyRegistry
    /\ call = Called("none", None, 0, 0, "ok", NoHandle)

DoConfig ==
    /\ \E isBool \in BOOLEAN, u \in BOOLEAN : Config(isBool, u)
    /\ UNCHANGED <<pollVars, restVars>>

DoGetInstance ==
    /\ \E id \in IdArgs, w \in Dims, h \in Dims : GetInstance(id, w, h)
    /\ UNCHANGED <<pollVars, restVars>>

DoWaitFor ==
    \E c \in Predicates, t \in Timeouts, i \in Intervals : WaitFor(c, t, i)

DoWaitToBeSet ==
    \E c \in Producers, t \in Timeouts, i \in Intervals : WaitToBeSet(c, t, i)

DoEvaluate == \E v \in {None, "True"} \cup Values : Evaluate(v)

DoWaitForImage ==
    \E p \in ImagePaths, f \in BOOLEAN, c \in Confidences, t \in ImageTimeouts :
        WaitForImage(p, f, c, t)

DoWaitForImageToDisappear ==
    \E p \in ImagePaths, f \in BOOLEAN, c \in Confidences, t \in ImageTimeouts :
        WaitForImageToDisappear(p, f, c, t)

DoLocateMatch == \E s \in Scores : LocateMatch(s)

\* A step of the running primitive (not a new call, not the clock).
PollStep == DoEvaluate \/ StartClock \/ LoopTest \/ TimeoutCheck \/ Wake

LocateStep == LocateAssert \/ LocateCapture \/ LocateLoad \/ DoLocateMatch

Init == RegInit /\ PollInit /\ RestInit

\* The registry of handles.
Next == DoConfig \/ DoGetInstance

Spec == Init /\ [][Next]_vars

\* The polling primitives, called with conditions of the caller's own.
PollNext ==
    \/ DoWaitFor
    \/ DoWaitToBeSet
    \/ DoEvaluate
    \/ StartClock
    \/ LoopTest
    \/ TimeoutCheck
    \/ Wake
    \/ Tick

SpecPoll == Init /\ [][PollNext]_vars

\* The same, with a clock that advances and a thread that keeps running.
SpecPollFair == SpecPoll /\ WF_vars(Tick) /\ WF_vars(PollStep)

\* The image waits of Screen, polling the template locator.
ImageNext ==
    \/ DoWaitForImage
    \/ DoWaitForImageToDisappear
    \/ LocateAssert
    \/ LocateCapture
    \/ LocateLoad
    \/ DoLocateMatch
    \/ StartClock
    \/ LoopTest
    \/ TimeoutCheck
    \/ Wake
    \/ Tick

SpecImage == Init /\ [][ImageNext]_vars

DoMouseMove == \E point \in PointArgs, click \in ClickArgs : MouseMove(point, click)

DoMouseDrag == \E start \in PointArgs, end \in PointArgs : MouseDrag(start, end)

DoMousePoll == \E out \in Outputs : MousePoll(out)

\* The pointer methods of Screen, each running wait_for on the position.
MouseNext ==
    \/ DoMouseMove
    \/ DoMouseDrag
    \/ DoMousePoll
    \/ MouseTimedOut
    \/ DragRelease
    \/ MouseReturn
    \/ LoopTest
    \/ TimeoutCheck
    \/ Wake
    \/ Tick

SpecMouse == Init /\ [][MouseNext]_vars

DoRunCommand ==
    \E waitFor \in BOOLEAN, inTime \in BOOLEAN, rc \in ReturnCodes,
       out \in Contents, err \in Contents :
        RunCommand(waitFor, inTime, rc, out, err)

\* Display.run_command, statement by statement.
RunNext ==
    \/ DoRunCommand
    \/ RunWait
    \/ RunReadStderr
    \/ RunReadStdout
    \/ RunLog
    \/ RunReturn

SpecRun == Init /\ [][RunNext]_vars

DoExtractText ==
    /\ ocr.pc = "idle"
    /\ \E shape \in Shapes, pixels \in BgrImages \cup {<<>>},
          lower \in ColourBounds, upper \in ColourBounds,
          custom \in BOOLEAN, typesOk \in BOOLEAN :
           ExtractText(shape, pixels, lower, upper, custom, typesOk)

\* OCR.extract_text, step by step.
OcrNext ==
    \/ DoExtractText
    \/ ExtractAssert
    \/ ExtractPrepare
    \/ ExtractConvert
    \/ ExtractImprove
    \/ ExtractEnhance
    \/ ExtractRecognize
    \/ ExtractLeave

SpecOcr == Init /\ [][OcrNext]_vars

(***************************************************************************)
(* The registry: claims C1 - C3, checked under Spec.                       *)
(***************************************************************************)
GetInstanceStep == call'.op = "get_instance" /\ call' # call

\* C1: whatever sequence of config and get_instance calls was made, failed
\* ones included, in unique-display mode the registry holds at most one handle.
C1_UniqueAtMostOne == uniqueDisplay => Size(instances) <= 1

\* A second display was asked for in unique-display mode and was refused.
C1_Witness ==
    /\ uniqueDisplay
    /\ Size(instances) = 1
    /\ call.op = "get_instance"
    /\ call.id \in ColonIds \ DOMAIN instances
    /\ call.width > 0 /\ call.height > 0
    /\ call.outcome = "AssertionError"

\* C2: get_instance without an identifier succeeds exactly when unique-display
\* mode is on and the registry holds exactly one handle, then returns that
\* handle; otherwise it fails; in both cases it creates no handle.
C2_NoIdRequest ==
    [][(GetInstanceStep /\ call'.id = None) =>
          /\ (call'.outcome = "ok") <=> (uniqueDisplay /\ Size(instances) = 1)
          /\ call'.outcome = "ok" =>
                 \A d \in DOMAIN instances : call'.ret = instances[d]
          /\ call'.outcome # "ok" => call'.ret = NoHandle
          /\ instances' = instances
          /\ serials' = serials]_vars

\* A request without an identifier returned the one handle of the registry.
C2_Witness ==
    /\ call.op = "get_instance" /\ call.id = None /\ call.outcome = "ok"
    /\ call.ret.serial > 0
    /\ uniqueDisplay

\* C3: get_instance for an identifier that is already registered returns the
\* handle the first call for that identifier created, whatever width and
\* height say, and changes neither the registry nor the mode flag.
C3_ExistingIdRequest ==
    [][(GetInstanceStep /\ call'.id \in DOMAIN instances) =>
          /\ call'.outcome = "ok"
          /\ call'.ret = firstHandle[call'.id]
          /\ instances' = instances
          /\ uniqueDisplay' = uniqueDisplay
          /\ serials' = serials
          /\ firstHandle' = firstHandle]_vars

\* A registered identifier was asked for again with another width and height
\* that the constructor would have rejected.
C3_Witness ==
    /\ call.op = "get_instance" /\ call.id \in DOMAIN instances
    /\ call.outcome = "ok"
    /\ call.ret = instances[call.id]
    /\ call.width = 0 /\ call.height = 0
    /\ call.ret.width > 0

(***************************************************************************)
(* The polling primitives: claims C4 - C7, checked under SpecPoll (C5      *)
(* under SpecPollFair).                                                    *)
(***************************************************************************)
InWaitFor == poll.prim = "wait_for"
InWaitToBeSet == poll.prim = "wait_to_be_set"
Done == poll.pc = "done"

\* C4: wait_for returns true right after the evaluation that returned true,
\* with no evaluation or sleep after it; it returns false only on a timeout
\* check that follows a false evaluation, reads a clock more than timeout
\* after the first evaluation began, and is followed by no evaluation; and
\* exactly one sleep of at least interval separates consecutive evaluations.
C4_WaitFor ==
    InWaitFor =>
        /\ Truthy(poll.result) => poll.pc \in {"test", "done"}
        /\ (Done /\ Truthy(poll.result)) => poll.ret = "True"
        /\ (Done /\ poll.ret = "True") =>
               Truthy(poll.result) /\ poll.sleeps = poll.evals - 1
        /\ (Done /\ poll.ret = "False") =>
               /\ poll.evals >= 1 /\ poll.result = "False"
               /\ poll.gaveUpAt - poll.firstEvalAt > poll.timeout
               /\ poll.evalsAtGiveUp = poll.evals
               /\ poll.sleeps = poll.evals - 1
        /\ Done => poll.ret \in {"True", "False"}
        /\ poll.pc \in {"eval", "sleep"} => poll.sleeps = poll.evals
        /\ poll.pc \in {"test", "check"} => poll.sleeps = poll.evals - 1
        /\ (poll.pc = "eval" /\ poll.evals > 0) => now >= poll.wakeAt
        /\ poll.pc = "sleep" =>
               poll.wakeAt - poll.interval - poll.firstEvalAt <= poll.timeout

\* wait_for gave up after several false evaluations and sleeps.
C4_Witness ==
    /\ InWaitFor /\ Done /\ poll.ret = "False"
    /\ poll.cond = "arbitrary"
    /\ poll.timeout > 0 /\ poll.interval > 0
    /\ poll.evals >= 3

\* C5: wait_for with an always-false predicate, a finite timeout and a
\* positive interval eventually returns false when the clock advances, and
\* when it has returned, at least timeout has elapsed since start.
AlwaysFalseCall == InWaitFor /\ poll.cond = "always_false" /\ poll.interval > 0

C5_AlwaysFalseTerminates ==
    /\ (AlwaysFalseCall /\ ~Done) ~> (AlwaysFalseCall /\ Done /\ poll.ret = "False")
    /\ [](AlwaysFalseCall /\ Done =>
            /\ poll.ret = "False"
            /\ poll.gaveUpAt - poll.start >= poll.timeout
            /\ now - poll.start >= poll.timeout)

\* An always-false wait_for with the largest timeout returned false.
C5_Witness ==
    /\ AlwaysFalseCall /\ Done /\ poll.ret = "False"
    /\ poll.timeout = MaxTimeout
    /\ poll.evals >= 2

ZeroTimeoutAbsent == InWaitToBeSet /\ poll.timeout = 0 /\ poll.cond = "always_absent"

\* C6 as stated: the producer is evaluated once before the clock starts, and
\* a zero-timeout call with an always-absent producer makes exactly one
\* evaluation before it returns absent.
C6_ExactlyOneEvaluation ==
    /\ (InWaitToBeSet /\ poll.started) => poll.evalsAtStart = 1
    /\ (ZeroTimeoutAbsent /\ Done) => (poll.evals = 1 /\ poll.ret = None)

\* C6 as amended: the producer is evaluated once before the clock starts; a
\* zero-timeout call with an always-absent producer returns absent after at
\* least one evaluation, after exactly one only if its first timeout check
\* read a clock later than start; if that check read start itself the call
\* went to sleep and evaluates again.
C6_ZeroTimeout ==
    /\ (InWaitToBeSet /\ poll.started) =>
           poll.evalsAtStart = 1 /\ poll.start >= poll.firstEvalAt
    /\ (InWaitToBeSet /\ ~poll.started) => poll.evals <= 1 /\ poll.pc \in {"eval", "start"}
    /\ (ZeroTimeoutAbsent /\ Done) =>
           /\ poll.ret = None
           /\ poll.evals >= 1
           /\ poll.evals = 1 => poll.gaveUpAt > poll.start
    /\ (ZeroTimeoutAbsent /\ poll.pc = "sleep" /\ poll.evals = 1) =>
           poll.wakeAt - poll.interval = poll.start

\* A zero-timeout call of an always-absent producer evaluated it twice.
C6_Witness ==
    /\ ZeroTimeoutAbsent /\ Done
    /\ poll.interval > 0
    /\ poll.evals = 2

\* C7: wait_to_be_set returns the first non-absent value the producer yields
\* and makes no evaluation after it; it returns absent only if every
\* evaluation yielded absent and a check read more than timeout since start.
C7_FirstValue ==
    InWaitToBeSet =>
        /\ poll.firstValue # None =>
               /\ poll.evals = poll.evalsAtValue
               /\ poll.result = poll.firstValue
               /\ poll.pc \in {"start", "test", "done"}
        /\ (Done /\ poll.ret # None) => poll.ret = poll.firstValue
        /\ (Done /\ poll.firstValue # None) => poll.ret = poll.firstValue
        /\ (Done /\ poll.ret = None) =>
               /\ poll.firstValue = None
               /\ poll.evals >= 1
               /\ poll.started
               /\ poll.gaveUpAt - poll.start > poll.timeout
               /\ poll.evalsAtGiveUp = poll.evals

\* A value that is falsy but not None arrived on a later evaluation and was
\* returned.
C7_Witness ==
    /\ InWaitToBeSet /\ Done
    /\ poll.ret = "False"
    /\ poll.evals >= 2

(***************************************************************************)
(* The template locator and the image waits: claims C8 - C10, checked      *)
(* under SpecImage.                                                        *)
(***************************************************************************)
InImageWait == img.caller \in {"wait_for_image", "wait_for_image_to_disappear"}
ConfidenceOutOfRange == img.confidence.val < 0 \/ img.confidence.val > 10

\* C8: with a confidence outside [0, 1] both image waits end with the
\* assertion error of the locator, before any screen capture and any image
\* load, on the first evaluation and without a sleep.
C8_ConfidenceRejected ==
    (InImageWait /\ ConfidenceOutOfRange) =>
        /\ img.captures = 0
        /\ img.loads = 0
        /\ poll.evals = 0 /\ poll.sleeps = 0
        /\ poll.pc \in {"eval", "done"}
        /\ Done => poll.outcome = "AssertionError"

\* A float confidence of 1.1, everything else valid, was rejected.
C8_Witness ==
    /\ InImageWait /\ Done
    /\ img.confidence = [isFloat |-> TRUE, val |-> 11]
    /\ img.imagePath = "readable" /\ img.frameOk
    /\ poll.outcome = "AssertionError"

\* C9 as stated: the locator loads the reference image before it captures the
\* frame, so a call that fails with FileNotFoundError fails on the load of its
\* first evaluation and has captured nothing.
C9_LoadBeforeCapture ==
    (InImageWait /\ poll.outcome = "FileNotFoundError") =>
        /\ img.loads = 1
        /\ poll.evals = 0
        /\ img.captures = 0

\* C9 as amended: the locator captures the frame before it loads the
\* reference image; with arguments that pass the assertions and an unreadable
\* imagePath both image waits fail with FileNotFoundError (not the assertion
\* error, not TimeoutError) on the first evaluation, after exactly one
\* capture and one load attempt and without a sleep.
C9_NotFoundAfterCapture ==
    InImageWait =>
        /\ img.loads <= img.captures /\ img.captures <= img.loads + 1
        /\ poll.pc = "load" => img.captures = img.loads + 1
        /\ poll.outcome = "FileNotFoundError" =>
               /\ img.imagePath = "unreadable"
               /\ img.captures = 1 /\ img.loads = 1
               /\ poll.evals = 0 /\ poll.sleeps = 0
        /\ (Done /\ img.imagePath = "unreadable") =>
               poll.outcome = IF img.frameOk /\ img.confidence.isFloat
                                 /\ ~ConfidenceOutOfRange
                              THEN "FileNotFoundError" ELSE "AssertionError"

\* An image wait failed with FileNotFoundError after one capture.
C9_Witness ==
    /\ InImageWait /\ Done
    /\ poll.outcome = "FileNotFoundError"
    /\ img.captures = 1 /\ img.loads = 1

\* C10 as stated: the image waits honour the caller's timeout t: TimeoutError
\* is raised only by a check that read more than t since start, and the loop
\* goes on to sleep only after a check that read at most t since start.
C10_CallerTimeoutHonoured ==
    InImageWait =>
        /\ poll.outcome = "TimeoutError" =>
               poll.gaveUpAt - poll.start > img.timeout
        /\ poll.pc = "sleep" =>
               poll.wakeAt - poll.interval - poll.start <= img.timeout

(***************************************************************************)
(* The pointer methods: claims C11 and C15, checked under SpecMouse.       *)
(***************************************************************************)
\* The running method issued the xdotool command c.
Issued(c) == \E i \in DOMAIN mouse.cmds : mouse.cmds[i] = c

\* The button is held: a mousedown was issued and no mouseup after it.
Pressed ==
    \E i \in DOMAIN mouse.cmds :
        /\ mouse.cmds[i] = "mousedown"
        /\ \A j \in DOMAIN mouse.cmds : j > i => mouse.cmds[j] # "mouseup"

C15_ReleaseAfterStart ==
    mouse.op = "mouse_drag" =>
        /\ Issued("mouseup") =>
               /\ "start" \in mouse.sightings
               /\ Issued("mousedown")
        /\ (mouse.phase = "start" /\ poll.pc = "done" /\ poll.ret = "False") =>
               /\ mouse.outcome \in {"running", "TimeoutError"}
               /\ ~Issued("mouseup")
               /\ Pressed
        /\ (mouse.phase = "start" /\ mouse.outcome = "TimeoutError") =>
               /\ poll.ret = "False"
               /\ poll.gaveUpAt - poll.start > MouseTimeout
               /\ mouse.sightings = {}
               /\ mouse.named = mouse.start
               /\ mouse.cmds = <<"windowactivate", "mousedown">>
               /\ Pressed

\* A drag never saw the pointer at start for the whole second and ended with
\* TimeoutError, the button pressed and no mouseup sent.
C15_Witness ==
    /\ mouse.op = "mouse_drag"
    /\ mouse.phase = "start"
    /\ mouse.outcome = "TimeoutError"
    /\ poll.evals >= 10
    /\ Pressed
    /\ ~Issued("mouseup")

(***************************************************************************)
(* Display.run_command: claim C12, checked under SpecRun.                  *)
(***************************************************************************)
\* run_command ended for a command that exited non-zero.
EndedNonZero == run.pc = "done" /\ Failed(run.rc)

\* C12 as stated: when the command exits non-zero run_command does not raise
\* and returns empty output, whatever the command wrote to stdout and stderr.
C12_EmptyOnFailure ==
    EndedNonZero => run.outcome = "returned" /\ run.ret = ""

\* C12, amended: when the command exits non-zero, run_command raises only
\* UnicodeDecodeError and only if a stream holds bytes that are not UTF-8;
\* otherwise it returns empty output when it did not wait for the exit (no
\* waitFor, or no exit within 5 seconds) or when stderr was empty (stdout
\* was read for the log), and what the command wrote to stdout when stderr
\* was not empty.
C12_NonZeroExit ==
    EndedNonZero =>
        /\ run.outcome \in {"returned", "UnicodeDecodeError"}
        /\ run.outcome = "UnicodeDecodeError" <=>
               /\ run.waitFor /\ run.inTime
               /\ "bytes" \in {run.wroteOut, run.wroteErr}
        /\ run.outcome = "returned" =>
               run.ret = IF run.waitFor /\ run.inTime /\ run.wroteErr # ""
                         THEN run.wroteOut
                         ELSE ""
        /\ (run.outcome = "returned" /\ run.waitFor /\ run.inTime) =>
               run.logged = IF run.wroteErr # "" THEN run.wroteErr
                            ELSE run.wroteOut

\* A command wrote to both streams and exited non-zero: the caller received
\* what it wrote to stdout.
C12_Witness ==
    /\ EndedNonZero
    /\ run.waitFor /\ run.inTime
    /\ run.wroteOut = "text" /\ run.wroteErr = "text"
    /\ run.outcome = "returned"
    /\ run.ret = "text"
    /\ run.logged = "text"

(***************************************************************************)
(* OCR: claims C13 and C14, checked under SpecOcr.                         *)
(***************************************************************************)
\* __convert_to_bw returned for the image of the running extract_text.
Converted == ocr.bw # <<>>

\* Every channel of pixel i lies within the bounds of the spec.
WithinBounds(i) ==
    \A c \in 1..3 : /\ ocr.lower[c] <= ocr.pixels[i][c]
                    /\ ocr.pixels[i][c] <= ocr.upper[c]

\* C13 as stated: binarization sets every pixel within the bounds of the spec
\* to 255 and every other pixel to 0; an image whose pixels are all within the
\* bounds comes out all white.
C13_WithinBoundsWhite ==
    Converted =>
        \A i \in DOMAIN ocr.bw : ocr.bw[i] = IF WithinBounds(i) THEN 255 ELSE 0

\* C13, amended: binarization sets every pixel within the bounds of the spec
\* (the content colour) to 0 and every other pixel (the background) to 255;
\* an image whose pixels are all within the bounds comes out all black.
C13_WithinBoundsBlack ==
    Converted =>
        /\ DOMAIN ocr.bw = DOMAIN ocr.pixels
        /\ \A i \in DOMAIN ocr.bw : ocr.bw[i] = IF WithinBounds(i) THEN 0 ELSE 255
        /\ (\A i \in DOMAIN ocr.pixels : WithinBounds(i)) =>
               \A i \in DOMAIN ocr.bw : ocr.bw[i] = 0

\* An image of two colours, both within the bounds of the spec, came out all
\* black.
C13_Witness ==
    /\ Converted
    /\ ocr.pixels[1] # ocr.pixels[2]
    /\ \A i \in DOMAIN ocr.pixels : WithinBounds(i)
    /\ \A i \in DOMAIN ocr.bw : ocr.bw[i] = 0

\* The image of the running extract_text is an H x W x 3 array.
ThreeChannels == Ndim(ocr.shape) = 3 /\ Channels(ocr.shape) = 3

\* C14: an image that does not have exactly 3 channels is rejected with an
\* AssertionError before any pipeline step or OCR call, with or without a
\* prepare_image function.
C14_NonBgrRejected ==
    (ocr.pc \notin {"idle", "assert"} /\ ~ThreeChannels) =>
        /\ ocr.outcome = "AssertionError"
        /\ ocr.steps = <<>>

====
